---- MODULE Spec2Model ----
(***************************************************************************)
(* A model of kvm-dmesg's guest access layer: the QMP monitor client       *)
(* (qmp_client.c, src/unnamed/part_000) and the backend dispatch with the  *)
(* libvirt and flat-file backends (src/libvirt_client.c).                  *)
(*                                                                         *)
(* Text is modelled character by character: a C string or buffer is a      *)
(* sequence of one-character strings, and a read past the stored bytes of  *)
(* a zeroed or terminated buffer yields NUL.  64-bit values are four       *)
(* 16-bit limbs, most significant first, so that the arithmetic wraps at   *)
(* 2^64 as uint64_t does.                                                  *)
(***************************************************************************)
EXTENDS Integers, Sequences, FiniteSets, TLC

(***************************************************************************)
(* Characters and the C library functions the code calls.                  *)
(***************************************************************************)
NUL == "NUL"
BS  == "\\"
DQ  == "\""

At(s, i) == IF i >= 1 /\ i <= Len(s) THEN s[i] ELSE NUL

UpperChars == <<"A","B","C","D","E","F","G","H","I","J","K","L","M",
                "N","O","P","Q","R","S","T","U","V","W","X","Y","Z">>
LowerChars == <<"a","b","c","d","e","f","g","h","i","j","k","l","m",
                "n","o","p","q","r","s","t","u","v","w","x","y","z">>

UpperSet == {UpperChars[k] : k \in 1..26}

tolower(c) ==
    IF c \in UpperSet
    THEN LowerChars[CHOOSE k \in 1..26 : UpperChars[k] = c]
    ELSE c

HexChars == <<"0","1","2","3","4","5","6","7","8","9","a","b","c","d","e","f">>

HexSet == {HexChars[k] : k \in 1..16} \cup {"A", "B", "C", "D", "E", "F"}

IsHex(c) == c \in HexSet

HexVal(c) == (CHOOSE k \in 1..16 : HexChars[k] = tolower(c)) - 1

IsSpace(c) == c \in {" ", "\t", "\n", "\r"}

(* strncasecmp(s1, s2, n) = 0: the first n characters agree, letter case   *)
(* ignored, the comparison stopping early at a NUL both strings share.     *)
RECURSIVE CaseEqualFrom(_, _, _, _)
CaseEqualFrom(s1, s2, n, i) ==
    IF i > n THEN TRUE
    ELSE IF tolower(At(s1, i)) # tolower(At(s2, i)) THEN FALSE
    ELSE IF At(s1, i) = NUL THEN TRUE
    ELSE CaseEqualFrom(s1, s2, n, i + 1)

strncasecmp(s1, s2, n) == IF CaseEqualFrom(s1, s2, n, 1) THEN 0 ELSE 1

(* The C string held in a buffer: its characters up to the first NUL.      *)
CLen(s) ==
    LET nuls == {i \in 1..Len(s) : s[i] = NUL}
    IN  IF nuls = {} THEN Len(s)
        ELSE (CHOOSE i \in nuls : \A j \in nuls : i <= j) - 1

MatchAt(s, pat, i) == \A k \in 1..Len(pat) : At(s, i + k - 1) = pat[k]

(* strstr(s, pat): the index of the first occurrence of pat in the C       *)
(* string s, 0 (NULL) when there is none.                                  *)
strstr(s, pat) ==
    LET n == CLen(s)
        hits == {i \in 1..n : i + Len(pat) - 1 <= n /\ MatchAt(s, pat, i)}
    IN  IF hits = {} THEN 0
        ELSE CHOOSE i \in hits : \A j \in hits : i <= j

(***************************************************************************)
(* The protocol literals.                                                  *)
(***************************************************************************)
QMP_GREETING == <<"{", DQ, "Q", "M", "P", DQ, ":">>

QMP_COMMAND_MODE_OK ==
    <<"{", DQ, "r", "e", "t", "u", "r", "n", DQ, ":", " ", "{", "}", "}", "\r", "\n">>

QMP_ENTER_COMMAND_MODE_LEN == 33

(***************************************************************************)
(* Bounds of the model.                                                    *)
(***************************************************************************)
MaxRes == 2

MaxCloses == 2

(***************************************************************************)
(* The program's state.  guest_client, domain, domain_conn, mem_file and   *)
(* qmp_fd are the globals of the two files; res is the operating system's  *)
(* and libvirt's view of the resources they name: res[0] is descriptor 0,  *)
(* which qmp_fd (a zero-initialised static) names before any socket is     *)
(* made.  call, ret, env, pre, init_r, est_r and neg_r record the last     *)
(* call, its result, its environment, the globals before it and the        *)
(* results of the calls it made.                                           *)
(***************************************************************************)
VARIABLES guest_client, domain, domain_conn, mem_file, qmp_fd, res,
          call, ret, env, pre, init_r, est_r, neg_r,
          pm_case, pm_size, pm_out,
          rg_env, rg_out,
          rd, out, segs,
          tr,
          dr, sock, mon

lifeVars == <<guest_client, domain, domain_conn, mem_file, qmp_fd, res,
              call, ret, env, pre, init_r, est_r, neg_r>>

pmVars == <<pm_case, pm_size, pm_out>>

rgVars == <<rg_env, rg_out>>

rdVars == <<rd, out, segs>>

trVars == <<tr>>

drVars == <<dr, sock, mon>>

vars == <<lifeVars, pmVars, rgVars, rdVars, trVars, drVars>>

(* The NULL guest_client, and a call that was not made: the results of the  *)
(* calls a handler makes are kept as <<r>>.                                *)
NULL == [ty |-> "NULL", get_registers |-> "NULL", readmem |-> "NULL"]

NotCalled == <<>>

guest_access_t == {"GUEST_NAME", "GUEST_MEMORY", "QMP_SOCKET"}

Globals ==
    [guest_client |-> guest_client, domain |-> domain, domain_conn |-> domain_conn,
     mem_file |-> mem_file, qmp_fd |-> qmp_fd, res |-> res]

NRes(rs) == Cardinality(DOMAIN rs) - 1

(* socket(), virConnectOpen(), virDomainLookupByName() and fopen() hand    *)
(* out a new resource; close(), virConnectClose(), virDomainFree() and     *)
(* fclose() release the one named, whatever its state.                     *)
OpenRes(rs, kind) ==
    [i \in 0..(NRes(rs) + 1) |->
        IF i <= NRes(rs) THEN rs[i] ELSE [kind |-> kind, open |-> TRUE, closes |-> 0]]

CloseRes(rs, id) ==
    [rs EXCEPT ![id] = [@ EXCEPT !.open = FALSE, !.closes = @ + 1]]

(***************************************************************************)
(* qmp_read as the callers of this part of the model see it: the poll      *)
(* loop either fails (-1) or leaves the bytes the peer sent in the buffer  *)
(* and their count in *len.                                                *)
(***************************************************************************)
qmp_read(poll_r, bytes) ==
    IF poll_r = -1 THEN [r |-> -1, nread |-> 0, buf |-> <<>>]
    ELSE [r |-> 0, nread |-> Len(bytes), buf |-> bytes]

(* qmp_establish_conn: r, and the globals it leaves.                       *)
qmp_establish_conn(g, sock_path, e) ==
    IF Len(sock_path) = 0 THEN [r |-> -1, g |-> g]
    ELSE IF ~e.socket_ok THEN [r |-> -1, g |-> g]
    ELSE
      LET rs1 == OpenRes(g.res, "socket")
          s   == NRes(rs1)
          g1  == [g EXCEPT !.res = rs1, !.qmp_fd = s]
      IN  IF ~e.connect_ok
          THEN [r |-> -1, g |-> [g1 EXCEPT !.res = CloseRes(rs1, s)]]
          ELSE
            LET rx == qmp_read(e.poll1, e.greet)
            IN  IF rx.r = -1 THEN [r |-> -1, g |-> g1]
                ELSE IF rx.nread = 0
                        /\ strncasecmp(rx.buf, QMP_GREETING, Len(QMP_GREETING)) # 0
                THEN [r |-> -1, g |-> g1]
                ELSE [r |-> 0, g |-> g1]

(* qmp_negotiate: 0 or -1.                                                 *)
qmp_negotiate(e) ==
    IF e.nwrite = 0 THEN -1
    ELSE
      LET rx == qmp_read(e.poll2, e.reply)
      IN  IF rx.r = -1 THEN -1
          ELSE IF strncasecmp(rx.buf, QMP_COMMAND_MODE_OK, rx.nread) # 0 THEN -1
          ELSE 0

(* qmp_client_init: r, the globals, and what the two steps returned        *)
(* ("none": the step was not taken).                                       *)
qmp_client_init(g, sock_path, e) ==
    LET est == qmp_establish_conn(g, sock_path, e)
    IN  IF est.r = -1
        THEN [r |-> -1, g |-> est.g, est_r |-> <<-1>>, neg_r |-> NotCalled]
        ELSE LET n == qmp_negotiate(e)
             IN  [r |-> n, g |-> est.g, est_r |-> <<0>>, neg_r |-> <<n>>]

qmp_client_uninit(g) ==
    LET was == g.res[g.qmp_fd].open
    IN  [r |-> IF was THEN 0 ELSE -1, g |-> [g EXCEPT !.res = CloseRes(g.res, g.qmp_fd)]]

(***************************************************************************)
(* The libvirt and flat-file backends' construction and teardown.          *)
(* A lookup through a connection that was already closed is a use of a     *)
(* freed object: either outcome of the lookup is possible.                 *)
(***************************************************************************)
libvirt_client_init(g, guest_name, e) ==
    LET rs1 == IF g.domain_conn = 0 /\ e.conn_ok THEN OpenRes(g.res, "conn") ELSE g.res
        dc  == IF g.domain_conn = 0
               THEN (IF e.conn_ok THEN NRes(rs1) ELSE 0)
               ELSE g.domain_conn
        g1  == [g EXCEPT !.res = rs1, !.domain_conn = dc]
    IN  IF dc = 0 THEN [r |-> -1, g |-> g1]
        ELSE
          LET rs2 == IF g.domain = 0 /\ e.lookup_ok THEN OpenRes(rs1, "domain") ELSE rs1
              dom == IF g.domain = 0
                     THEN (IF e.lookup_ok THEN NRes(rs2) ELSE 0)
                     ELSE g.domain
              g2  == [g1 EXCEPT !.res = rs2, !.domain = dom]
          IN  IF dom = 0
              THEN [r |-> -1, g |-> [g2 EXCEPT !.res = CloseRes(rs2, dc)]]
              ELSE [r |-> 0, g |-> g2]

libvirt_client_uninit(g) ==
    LET g1 == IF g.domain # 0
              THEN [g EXCEPT !.res = CloseRes(g.res, g.domain), !.domain = 0]
              ELSE g
    IN  IF g1.domain_conn # 0
        THEN [g1 EXCEPT !.res = CloseRes(g1.res, g1.domain_conn), !.domain_conn = 0]
        ELSE g1

file_client_init(g, path, e) ==
    IF g.mem_file # 0 THEN [r |-> 0, g |-> g]
    ELSE IF ~e.fopen_ok THEN [r |-> -1, g |-> g]
    ELSE LET rs1 == OpenRes(g.res, "file")
         IN  [r |-> 0, g |-> [g EXCEPT !.res = rs1, !.mem_file = NRes(rs1)]]

file_client_uninit(g) ==
    IF g.mem_file # 0
    THEN [g EXCEPT !.res = CloseRes(g.res, g.mem_file), !.mem_file = 0]
    ELSE g

(***************************************************************************)
(* Backend dispatch.  guest_client_new discards what the backend's init    *)
(* returned; init_r keeps it for the properties.                           *)
(***************************************************************************)
BackendInit(g, ac, ty, e) ==
    CASE ty = "GUEST_NAME" ->
           LET b == libvirt_client_init(g, ac, e)
           IN  [r |-> b.r, g |-> b.g, est_r |-> NotCalled, neg_r |-> NotCalled,
                get_registers |-> "libvirt_get_registers", readmem |-> "libvirt_readmem"]
      [] ty = "GUEST_MEMORY" ->
           LET b == file_client_init(g, ac, e)
           IN  [r |-> b.r, g |-> b.g, est_r |-> NotCalled, neg_r |-> NotCalled,
                get_registers |-> "file_get_registers", readmem |-> "file_readmem"]
      [] ty = "QMP_SOCKET" ->
           LET b == qmp_client_init(g, ac, e)
           IN  [r |-> b.r, g |-> b.g, est_r |-> b.est_r, neg_r |-> b.neg_r,
                get_registers |-> "qmp_get_registers", readmem |-> "qmp_readmem"]

guest_client_new_unguarded(g, ac, ty, e) ==
    LET b == BackendInit(g, ac, ty, e)
        c == [ty |-> ty, get_registers |-> b.get_registers, readmem |-> b.readmem]
    IN  [r |-> 0, g |-> [b.g EXCEPT !.guest_client = c],
         init_r |-> <<b.r>>, est_r |-> b.est_r, neg_r |-> b.neg_r]

guest_client_new(g, ac, ty, e) ==
    IF g.guest_client # NULL
    THEN [r |-> 0, g |-> g, init_r |-> NotCalled, est_r |-> NotCalled, neg_r |-> NotCalled]
    ELSE
      LET b == BackendInit(g, ac, ty, e)
          c == [ty |-> ty, get_registers |-> b.get_registers, readmem |-> b.readmem]
      IN  [r |-> 0, g |-> [b.g EXCEPT !.guest_client = c],
           init_r |-> <<b.r>>, est_r |-> b.est_r, neg_r |-> b.neg_r]

guest_client_release(g) ==
    IF g.guest_client = NULL THEN [r |-> 0, g |-> g]
    ELSE
      LET c  == g.guest_client
          g1 == CASE c.ty = "GUEST_NAME"   -> libvirt_client_uninit(g)
                  [] c.ty = "GUEST_MEMORY" -> file_client_uninit(g)
                  [] c.ty = "QMP_SOCKET"   -> qmp_client_uninit(g).g
      IN  [r |-> 0, g |-> [g1 EXCEPT !.guest_client = NULL]]

(***************************************************************************)
(* The environments of a call: what the operating system, libvirt and the  *)
(* peer do.  Fields a backend does not read hold a fixed value.            *)
(***************************************************************************)
GreetFull == QMP_GREETING \o <<" ", "{", "}", "}", "\r", "\n">>

Greetings ==
    { <<>>,
      GreetFull,
      <<"{", DQ, "q", "m", "p", DQ, ":", " ", "1", "}">>,
      <<"{", DQ, "Q", "M">>,
      <<"H", "T", "T", "P", "/", "1", ".", "1">> }

Replies ==
    { QMP_COMMAND_MODE_OK,
      <<>>,
      SubSeq(QMP_COMMAND_MODE_OK, 1, 5),
      <<"{", DQ, "R", "E", "T", "U", "R", "N", DQ, ":", " ", "{", "}", "}", "\r", "\n">>,
      <<"{", DQ, "e", "r", "r", "o", "r", DQ, ":", " ", "{", "}", "}", "\r", "\n">>,
      QMP_COMMAND_MODE_OK \o <<"{", "}">> }

Targets == { <<>>, <<"v", "m">> }

NoEnv ==
    [socket_ok |-> TRUE, connect_ok |-> TRUE, poll1 |-> 0, greet |-> <<>>,
     nwrite |-> 0, poll2 |-> 0, reply |-> <<>>,
     conn_ok |-> TRUE, lookup_ok |-> TRUE, fopen_ok |-> TRUE]

(* The fields past the step at which qmp_client_init gives up are never     *)
(* read, and keep NoEnv's value.  The greetings are tried with the         *)
(* negotiation going well, and the replies after a well-formed greeting.   *)
FullWrite == [NoEnv EXCEPT !.nwrite = QMP_ENTER_COMMAND_MODE_LEN]

QmpEnvs ==
    { [NoEnv EXCEPT !.socket_ok = FALSE],
      [NoEnv EXCEPT !.connect_ok = FALSE],
      [NoEnv EXCEPT !.poll1 = -1],
      [NoEnv EXCEPT !.greet = GreetFull],
      [NoEnv EXCEPT !.greet = GreetFull, !.nwrite = 5, !.reply = QMP_COMMAND_MODE_OK],
      [FullWrite EXCEPT !.greet = GreetFull, !.poll2 = -1] }
    \cup { [FullWrite EXCEPT !.greet = gr, !.reply = QMP_COMMAND_MODE_OK] :
             gr \in Greetings }
    \cup { [FullWrite EXCEPT !.greet = GreetFull, !.reply = rp] : rp \in Replies }

LibvirtEnvs ==
    { [NoEnv EXCEPT !.conn_ok = c, !.lookup_ok = l] : c \in BOOLEAN, l \in BOOLEAN }

FileEnvs == { [NoEnv EXCEPT !.fopen_ok = f] : f \in BOOLEAN }

Envs(ty) ==
    CASE ty = "GUEST_NAME"   -> LibvirtEnvs
      [] ty = "GUEST_MEMORY" -> FileEnvs
      [] ty = "QMP_SOCKET"   -> QmpEnvs

(***************************************************************************)
(* The lifecycle specification: any sequence of guest_client_new and       *)
(* guest_client_release calls.                                             *)
(***************************************************************************)
WithinCloses(rs) == \A i \in DOMAIN rs : rs[i].closes <= MaxCloses

SetGlobals(g) ==
    /\ guest_client' = g.guest_client
    /\ domain' = g.domain
    /\ domain_conn' = g.domain_conn
    /\ mem_file' = g.mem_file
    /\ qmp_fd' = g.qmp_fd
    /\ res' = g.res

LifeInit ==
    /\ guest_client = NULL
    /\ domain = 0
    /\ domain_conn = 0
    /\ mem_file = 0
    /\ qmp_fd = 0
    /\ res = [i \in 0..0 |-> [kind |-> "stdin", open |-> TRUE, closes |-> 0]]
    /\ call = [op |-> "none", ac |-> <<>>, ty |-> "none"]
    /\ ret = 0
    /\ env = NoEnv
    /\ pre = Globals
    /\ init_r = NotCalled
    /\ est_r = NotCalled
    /\ neg_r = NotCalled

GuestClientNew ==
    \E ac \in Targets, ty \in guest_access_t :
      \E e \in IF ac = <<>> /\ ty = "QMP_SOCKET" THEN {NoEnv} ELSE Envs(ty) :
        \E o \in {guest_client_new(Globals, ac, ty, e)} :
            /\ NRes(res) < MaxRes
            /\ WithinCloses(o.g.res)
            /\ SetGlobals(o.g)
            /\ call' = [op |-> "guest_client_new", ac |-> ac, ty |-> ty]
            /\ ret' = o.r
            /\ env' = e
            /\ pre' = Globals
            /\ init_r' = o.init_r
            /\ est_r' = o.est_r
            /\ neg_r' = o.neg_r
            /\ UNCHANGED <<pmVars, rgVars, rdVars, trVars, drVars>>

GuestClientRelease ==
    \E o \in {guest_client_release(Globals)} :
        /\ WithinCloses(o.g.res)
        /\ SetGlobals(o.g)
        /\ call' = [op |-> "guest_client_release", ac |-> <<>>, ty |-> "none"]
        /\ ret' = o.r
        /\ env' = NoEnv
        /\ pre' = Globals
        /\ init_r' = NotCalled
        /\ est_r' = NotCalled
        /\ neg_r' = NotCalled
        /\ UNCHANGED <<pmVars, rgVars, rdVars, trVars, drVars>>


(***************************************************************************)
(* Properties of construction and teardown.                                *)
(***************************************************************************)
IsNew == call.op = "guest_client_new"

BeginsWith(bytes, marker) ==
    /\ Len(bytes) >= Len(marker)
    /\ \A k \in 1..Len(marker) : bytes[k] = marker[k]

(* The greeting check of qmp_establish_conn was reached by the last call.  *)
GreetingChecked ==
    /\ IsNew /\ call.ty = "QMP_SOCKET" /\ pre.guest_client = NULL
    /\ Len(call.ac) > 0
    /\ env.socket_ok /\ env.connect_ok /\ env.poll1 = 0

(* C1: when the selected backend's construction fails, guest_client_new    *)
(* returns failure and guest_client stays NULL.                            *)
C1_FailedConstructionLeavesNull ==
    (IsNew /\ init_r = <<-1>>) => (ret = -1 /\ guest_client = NULL)

(* C2: qmp_establish_conn fails whenever the bytes of the first drain do   *)
(* not begin with the greeting marker, whether none or some were received. *)
C2_BadGreetingFails ==
    (GreetingChecked /\ ~BeginsWith(env.greet, QMP_GREETING)) => est_r = <<-1>>

(* C3: qmp_negotiate succeeds only if the reply is exactly the             *)
(* acknowledgement.                                                        *)
C3_NegotiateOnlyOnExactAck ==
    neg_r = <<0>> => env.reply = QMP_COMMAND_MODE_OK

(* C4: guest_client_new on a constructed instance returns 0 and leaves the *)
(* instance, the globals and the resources as they were, whatever mode and *)
(* target it is given; guest_client_release with no instance returns 0 and *)
(* changes nothing.                                                        *)
C4_NewAndReleaseIdempotent ==
    /\ (IsNew /\ pre.guest_client # NULL) => (ret = 0 /\ Globals = pre)
    /\ (call.op = "guest_client_release" /\ pre.guest_client = NULL)
          => (ret = 0 /\ Globals = pre)

C4_Witness ==
    /\ IsNew /\ pre.guest_client # NULL
    /\ call.ty # pre.guest_client.ty
    /\ Len(call.ac) > 0
    /\ ret = 0

(* The backend resources open now: sockets, libvirt connections, files.   *)
OpenBackendRes ==
    { i \in DOMAIN res : res[i].open /\ res[i].kind \in {"socket", "conn", "file"} }

(* C11: after any sequence of guest_client_new and guest_client_release,   *)
(* exactly one backend resource is open while guest_client is set and none *)
(* while it is NULL.                                                       *)
C11_OneResourceWhileConstructed ==
    /\ guest_client # NULL => Cardinality(OpenBackendRes) = 1
    /\ guest_client = NULL => Cardinality(OpenBackendRes) = 0

(* C20: over any sequence of guest_client_new and guest_client_release,    *)
(* every resource a backend opened (socket, connection, domain, file) is   *)
(* closed at most once.                                                    *)
C20_ClosedAtMostOnce ==
    \A i \in DOMAIN res : res[i].kind # "stdin" => res[i].closes <= 1

(***************************************************************************)
(* uint64_t: four 16-bit limbs, most significant first.                    *)
(***************************************************************************)
Limb == 256 * 256

U64(l3, l2, l1, l0) == <<l3, l2, l1, l0>>

(* a + b modulo 2^64 *)
Add64(a, b) ==
    LET s0 == a[4] + b[4]
        s1 == a[3] + b[3] + (s0 \div Limb)
        s2 == a[2] + b[2] + (s1 \div Limb)
        s3 == a[1] + b[1] + (s2 \div Limb)
    IN  <<s3 % Limb, s2 % Limb, s1 % Limb, s0 % Limb>>

(* a - b modulo 2^64 *)
Sub64(a, b) ==
    LET d0 == a[4] - b[4]
        d1 == a[3] - b[3] - (IF d0 < 0 THEN 1 ELSE 0)
        d2 == a[2] - b[2] - (IF d1 < 0 THEN 1 ELSE 0)
        d3 == a[1] - b[1] - (IF d2 < 0 THEN 1 ELSE 0)
    IN  <<d3 % Limb, d2 % Limb, d1 % Limb, d0 % Limb>>

(* a >= b, unsigned *)
Ge64(a, b) ==
    \/ a = b
    \/ \E k \in 1..4 : a[k] > b[k] /\ \A j \in 1..(k - 1) : a[j] = b[j]

(* A size_t that fits one limb pair, as a uint64_t. *)
ToU64(n) == <<0, 0, n \div Limb, n % Limb>>

(***************************************************************************)
(* sscanf(line, "%*s 0x%hhx 0x%hhx ... 0x%hhx", &values[0..7]) of          *)
(* qmp_populate_mem.  %*s skips white space and then one word, which is    *)
(* not stored; each " 0x%hhx" skips white space, matches the literal 0x    *)
(* and converts a run of hex digits (an optional 0x before them included)  *)
(* to an unsigned char.  The result is the sequence of the values stored:  *)
(* its length is sscanf's return value (an EOF return stores nothing).     *)
(***************************************************************************)
SkipSpace(s, p) ==
    CHOOSE i \in p..(Len(s) + 1) :
        /\ (i > Len(s) \/ ~IsSpace(s[i]))
        /\ \A j \in p..(i - 1) : IsSpace(s[j])

SkipWord(s, p) ==
    CHOOSE i \in p..(Len(s) + 1) :
        /\ (i > Len(s) \/ IsSpace(s[i]))
        /\ \A j \in p..(i - 1) : ~IsSpace(s[j])

SkipHex(s, p) ==
    CHOOSE i \in p..(Len(s) + 1) :
        /\ (i > Len(s) \/ ~IsHex(s[i]))
        /\ \A j \in p..(i - 1) : IsHex(s[j])

(* One " 0x%hhx" at position p: whether it matched, its value, and the     *)
(* position after it.                                                      *)
ScanByte(s, p) ==
    LET p1 == SkipSpace(s, p)
        p2 == SkipSpace(s, p1 + 2)
        p3 == IF At(s, p2) = "0" /\ tolower(At(s, p2 + 1)) = "x" THEN p2 + 2 ELSE p2
        q  == SkipHex(s, p3)
        v  == IF q - p3 >= 2 THEN 16 * HexVal(s[q - 2]) + HexVal(s[q - 1])
              ELSE HexVal(s[q - 1])
    IN  IF At(s, p1) = "0" /\ At(s, p1 + 1) = "x" /\ q > p3
        THEN [ok |-> TRUE, v |-> v, p |-> q]
        ELSE [ok |-> FALSE, v |-> 0, p |-> p]

RECURSIVE ScanBytes(_, _, _)
ScanBytes(s, p, k) ==
    IF k = 0 THEN <<>>
    ELSE LET b == ScanByte(s, p)
         IN  IF b.ok THEN <<b.v>> \o ScanBytes(s, b.p, k - 1) ELSE <<>>

(* The same without the %*s. *)
sscanf_line_no_skip(line) ==
    LET s  == SubSeq(line, 1, CLen(line))
        p0 == SkipSpace(s, 1)
    IN  IF p0 > Len(s) THEN <<>>
        ELSE ScanBytes(s, p0, 8)

sscanf_line(line) ==
    LET s  == SubSeq(line, 1, CLen(line))
        p0 == SkipSpace(s, 1)
    IN  IF p0 > Len(s) THEN <<>>
        ELSE ScanBytes(s, SkipWord(s, p0), 8)

(***************************************************************************)
(* qmp_populate_mem(input, len, buffer, size).  The state of its loop is   *)
(* st: start (the index into input), line (line[0..line_index-1]), w (the  *)
(* bytes stored at buffer[0..pos-1], in order) and ub, set when a          *)
(* character is stored past line[127].                                     *)
(***************************************************************************)
LINE_CAP == 128

return_start == <<DQ, "r", "e", "t", "u", "r", "n", DQ, ":", " ", DQ>>

PopCond(input, len, size, st) ==
    /\ ~st.ub
    /\ At(input, st.start) # DQ
    /\ st.start <= len
    /\ Len(st.w) < size

PopBody(input, st) ==
    LET c  == At(input, st.start)
        c1 == At(input, st.start + 1)
    IN  IF c = BS /\ c1 = "r"
        THEN [st EXCEPT !.w = @ \o sscanf_line(st.line), !.line = <<>>,
                        !.start = @ + 2]
        ELSE IF c = BS /\ c1 = "n"
        THEN [st EXCEPT !.start = @ + 2]
        ELSE IF Len(st.line) >= LINE_CAP
        THEN [st EXCEPT !.ub = TRUE]
        ELSE [st EXCEPT !.line = Append(@, c), !.start = @ + 1]

(* The while loop: up to 2^k iterations from st, k halved by nesting.      *)
RECURSIVE PopRun(_, _, _, _, _)
PopRun(input, len, size, st, k) ==
    IF ~PopCond(input, len, size, st) THEN st
    ELSE IF k = 0 THEN PopBody(input, st)
    ELSE LET s1 == PopRun(input, len, size, st, k - 1)
         IN  PopRun(input, len, size, s1, k - 1)

(* 2^LoopDepth exceeds every len the callers pass (1024 + 8 * 4096).       *)
LoopDepth == 16

(* r is the return value; w the bytes stored from buffer[0] on.            *)
qmp_populate_mem(input, len, size) ==
    LET m == strstr(input, return_start)
    IN  IF m = 0 THEN [r |-> -1, w |-> <<>>, ub |-> FALSE]
        ELSE LET st0 == [start |-> m + Len(return_start), line |-> <<>>,
                         w |-> <<>>, ub |-> FALSE]
                 st  == PopRun(input, len, size, st0, LoopDepth)
             IN  [r |-> 0, w |-> st.w, ub |-> st.ub]

(***************************************************************************)
(* The monitor's side: a reference memory, and the text QEMU's monitor     *)
(* returns for "xp /<size>xb 0x<addr>": one line for every eight bytes,    *)
(* the address, a colon and the bytes as 0xHH, each line ended by the      *)
(* escaped \r\n of the JSON string.                                        *)
(***************************************************************************)
Mem(a) == (a[4] + 3 * (a[4] \div 256) + 5 * a[3] + 7 * a[2] + 11 * a[1]) % 256

Hex2(b) == <<HexChars[(b \div 16) + 1], HexChars[(b % 16) + 1]>>

Hex4(l) == Hex2(l \div 256) \o Hex2(l % 256)

Hex16(a) == Hex4(a[1]) \o Hex4(a[2]) \o Hex4(a[3]) \o Hex4(a[4])

RECURSIVE XbTokens(_, _)
XbTokens(a, n) ==
    IF n = 0 THEN <<>>
    ELSE <<" ", "0", "x">> \o Hex2(Mem(a)) \o XbTokens(Add64(a, ToU64(1)), n - 1)

XbLine(a, n) == Hex16(a) \o <<":">> \o XbTokens(a, n) \o <<BS, "r", BS, "n">>

(* Lines lo..hi of the dump of size bytes at addr. *)
RECURSIVE XbLines(_, _, _, _)
XbLines(addr, size, lo, hi) ==
    IF lo > hi THEN <<>>
    ELSE IF lo = hi
    THEN XbLine(Add64(addr, ToU64(8 * lo)),
                IF 8 * lo + 8 <= size THEN 8 ELSE size - 8 * lo)
    ELSE LET mid == (lo + hi) \div 2
         IN  XbLines(addr, size, lo, mid) \o XbLines(addr, size, mid + 1, hi)

JsonReturn(text) ==
    <<"{">> \o return_start \o text \o <<DQ, "}", "\r", "\n">>

XpReply(addr, size) == JsonReturn(XbLines(addr, size, 0, ((size + 7) \div 8) - 1))

(***************************************************************************)
(* qmp_populate_mem on its own: the payloads it is given.  A payload is    *)
(* the marker, a number of lines and the closing quote; every line ends    *)
(* with the escaped \r\n and holds counts[i] tokens 0xHH with the values   *)
(* bases[i], bases[i] + 1, ..., after an address label when lbl is set.    *)
(***************************************************************************)
MaxLines == 2

MaxTok == 9

MaxLimit == 10

TokCounts == {0, 1, 7, 8, MaxTok}

RECURSIVE TokSeq(_, _)
TokSeq(b, n) ==
    IF n = 0 THEN <<>>
    ELSE <<" ", "0", "x">> \o Hex2(b) \o TokSeq(b + 1, n - 1)

CaseLine(lbl, b, n) ==
    (IF lbl THEN <<"1", "0", ":">> \o TokSeq(b, n)
     ELSE IF n = 0 THEN <<>>
     ELSE Tail(TokSeq(b, n)))
    \o <<BS, "r", BS, "n">>

RECURSIVE CaseLines(_, _)
CaseLines(c, i) ==
    IF i > Len(c.counts) THEN <<>>
    ELSE CaseLine(c.lbl, c.bases[i], c.counts[i]) \o CaseLines(c, i + 1)

CaseText(c) == return_start \o CaseLines(c, 1) \o <<DQ>>

(* The payload of the specification's example: two lines, no labels. *)
SpecCase == [lbl |-> FALSE, counts |-> <<8, 2>>, bases |-> <<0, 8>>]

CountSeqs == UNION { [1..k -> TokCounts] : k \in 0..MaxLines }

Cases ==
    { [lbl |-> l, counts |-> cs, bases |-> [i \in 1..Len(cs) |-> 16 * (i - 1)]] :
        l \in BOOLEAN, cs \in CountSeqs }
    \cup {SpecCase}

PmIdle ==
    /\ pm_case = [lbl |-> FALSE, counts |-> <<>>, bases |-> <<>>]
    /\ pm_size = 0
    /\ pm_out = [called |-> FALSE, r |-> 0, w |-> <<>>, ub |-> FALSE]

PmInit ==
    /\ pm_case \in Cases
    /\ pm_size \in 0..MaxLimit
    /\ pm_out = [called |-> FALSE, r |-> 0, w |-> <<>>, ub |-> FALSE]

PopulateMemCall ==
    /\ ~pm_out.called
    /\ LET input == CaseText(pm_case)
           o == qmp_populate_mem(input, Len(input), pm_size)
       IN  pm_out' = [called |-> TRUE, r |-> o.r, w |-> o.w, ub |-> o.ub]
    /\ UNCHANGED <<pm_case, pm_size>>
    /\ UNCHANGED <<lifeVars, rgVars, rdVars, trVars, drVars>>

(* What a line contributes: its tokens from the from-th on, eight at most. *)
LineBytes(c, i, from) ==
    LET n == IF c.counts[i] - (from - 1) > 8 THEN 8
             ELSE IF c.counts[i] - (from - 1) < 0 THEN 0
             ELSE c.counts[i] - (from - 1)
    IN  [k \in 1..n |-> c.bases[i] + (from - 1) + (k - 1)]

(* The lines in order, each taken while fewer than size bytes are stored.  *)
RECURSIVE Collected(_, _, _, _, _)
Collected(c, size, i, acc, from) ==
    IF i > Len(c.counts) \/ Len(acc) >= size THEN acc
    ELSE Collected(c, size, i + 1, acc \o LineBytes(c, i, from), from)

(* The 0xHH tokens of the lines, the first token of a line included. *)
AllTokens(c, size) == Collected(c, size, 1, <<>>, 1)

(* The 0xHH tokens that follow the first word of each line: all of them    *)
(* behind a label, all but the first without one.                          *)
AfterFirstWord(c, size) == Collected(c, size, 1, <<>>, IF c.lbl THEN 1 ELSE 2)

(* C5 as claimed: every line's tokens, starting with the line's first one, *)
(* are appended in order; the example payload with limit 10 gives the ten  *)
(* bytes 00 .. 09.                                                         *)
C5_EveryTokenAppended ==
    pm_out.called =>
        /\ pm_out.r = 0
        /\ pm_out.w = AllTokens(pm_case, pm_size)
        /\ (pm_case = SpecCase /\ pm_size = 10)
              => pm_out.w = <<0, 1, 2, 3, 4, 5, 6, 7, 8, 9>>

(* C5 as the code has it: for every line reached while fewer than limit    *)
(* bytes are stored, the values of the 0xHH tokens that follow the line's  *)
(* first word (an address label, or the first token when there is no       *)
(* label), eight at most, are appended in order; the example payload with  *)
(* limit 10 gives the eight bytes 01 .. 07, 09.                            *)
C5_TokensAfterFirstWordAppended ==
    pm_out.called =>
        /\ pm_out.r = 0
        /\ pm_out.w = AfterFirstWord(pm_case, pm_size)
        /\ (pm_case = SpecCase /\ pm_size = 10)
              => pm_out.w = <<1, 2, 3, 4, 5, 6, 7, 9>>

C5_Witness ==
    /\ pm_out.called
    /\ pm_case = SpecCase
    /\ pm_size = 10
    /\ pm_out.w = <<1, 2, 3, 4, 5, 6, 7, 9>>

(***************************************************************************)
(* qmp_populate_reg and qmp_get_registers.                                 *)
(***************************************************************************)
Ones64 == <<Limb - 1, Limb - 1, Limb - 1, Limb - 1>>

(* The value strtoul gives a run of hex digits: the number, or ULONG_MAX   *)
(* when it does not fit 64 bits.                                           *)
HexToU64(d) ==
    LET n == Len(d)
        h == [k \in 1..16 |-> IF k + n - 16 >= 1 THEN HexVal(d[k + n - 16]) ELSE 0]
    IN  IF \E k \in 1..(n - 16) : d[k] # "0" THEN Ones64
        ELSE [j \in 1..4 |->
                4096 * h[4 * j - 3] + 256 * h[4 * j - 2] + 16 * h[4 * j - 1] + h[4 * j]]

(* sscanf(s + p - 1, "%lx", reg): white space, an optional 0x, hex digits. *)
sscanf_lx(s, p) ==
    LET p1 == SkipSpace(s, p)
        p2 == IF At(s, p1) = "0" /\ tolower(At(s, p1 + 1)) = "x" THEN p1 + 2 ELSE p1
        q  == SkipHex(s, p2)
    IN  IF q > p2 THEN [n |-> 1, v |-> HexToU64(SubSeq(s, p2, q - 1))]
        ELSE [n |-> 0, v |-> Ones64]

qmp_populate_reg(buf, reg_name, old) ==
    LET s     == SubSeq(buf, 1, CLen(buf))
        start == strstr(s, reg_name)
        eqs   == {i \in start..Len(s) : s[i] = "="}
        after == IF eqs = {} THEN Len(s) + 1
                 ELSE (CHOOSE i \in eqs : \A j \in eqs : i <= j) + 1
        got   == sscanf_lx(s, after)
    IN  IF start = 0 THEN [r |-> -1, reg |-> old]
        ELSE IF got.n # 1 THEN [r |-> -1, reg |-> old]
        ELSE [r |-> 0, reg |-> got.v]

QMP_COMMAND_INFO_REGS_LEN == 85

(* The buffer xmalloc(n) returns holds whatever the heap held: after the   *)
(* nread bytes qmp_read stored come the residue bytes, then a NUL.         *)
HeapBuf(bytes, residue) == bytes \o residue

(* e: nwrite (what xwrite returned), poll (qmp_read's result), resp (the   *)
(* bytes read), residue.  regs: the caller's idtr, cr3 and cr4.  err is    *)
(* the register the pr_err names, "read" for "Failed to get read".         *)
qmp_get_registers(e, regs) ==
    IF e.nwrite # QMP_COMMAND_INFO_REGS_LEN
    THEN [r |-> -1, err |-> "none", regs |-> regs, sent |-> e.nwrite, held |-> {}]
    ELSE
      LET rx  == qmp_read(e.poll, e.resp)
          buf == HeapBuf(rx.buf, e.residue)
          c3  == qmp_populate_reg(buf, <<"C", "R", "3">>, regs.cr3)
          c4  == qmp_populate_reg(buf, <<"C", "R", "4">>, regs.cr4)
          id  == qmp_populate_reg(buf, <<"I", "D", "T">>, regs.idtr)
          sent == e.nwrite
          heap == {"buf"}
          held == heap \ {"buf"}
      IN  IF rx.r = -1 \/ rx.nread <= 0
          THEN [r |-> -1, err |-> "read", regs |-> regs, sent |-> sent, held |-> held]
          ELSE IF c3.r = -1
          THEN [r |-> -1, err |-> "CR3", regs |-> regs, sent |-> sent, held |-> held]
          ELSE IF c4.r = -1
          THEN [r |-> -1, err |-> "CR4",
                regs |-> [regs EXCEPT !.cr3 = c3.reg], sent |-> sent,
                held |-> held]
          ELSE IF id.r = -1
          THEN [r |-> -1, err |-> "IDT",
                regs |-> [regs EXCEPT !.cr3 = c3.reg, !.cr4 = c4.reg], sent |-> sent,
                held |-> held]
          ELSE [r |-> 0, err |-> "none",
                regs |-> [idtr |-> id.reg, cr3 |-> c3.reg, cr4 |-> c4.reg],
                sent |-> sent, held |-> held]

(***************************************************************************)
(* The replies to "info registers": for each of CR3, CR4 and IDT the text  *)
(* holds the label with a value ("ok"), the label with no hex value after  *)
(* its '=' ("bad"), or nothing ("missing").                                *)
(***************************************************************************)
RegNames == <<"CR3", "CR4", "IDT">>

RegLabel(k) ==
    CASE k = 1 -> <<"C", "R", "3">>
      [] k = 2 -> <<"C", "R", "4">>
      [] k = 3 -> <<"I", "D", "T">>

RegDigits(k) ==
    CASE k = 1 -> <<"0","0","0","0","0","0","0","0","1","9","8","7","2","0","0","0">>
      [] k = 2 -> <<"0","0","0","0","2","6","6","8">>
      [] k = 3 -> <<" "," ","f","f","f","f","f","f","f","f","f","f","5","2","8","0","0","0">>

RegValue(k) ==
    CASE k = 1 -> U64(0, 0, 6535, 8192)
      [] k = 2 -> U64(0, 0, 0, 9832)
      [] k = 3 -> U64(65535, 65535, 65362, 32768)

RegPart(k, form) ==
    CASE form = "ok"      -> RegLabel(k) \o <<"=">> \o RegDigits(k) \o <<" ">>
      [] form = "bad"     -> RegLabel(k) \o <<"=", "-", "-", " ">>
      [] form = "missing" -> <<>>

RegText(forms) ==
    <<"R", "A", "X", "=", "0", "0", "0", "1", " ">>
    \o RegPart(1, forms[1]) \o RegPart(2, forms[2]) \o RegPart(3, forms[3])
    \o <<BS, "r", BS, "n">>

RegForms == [1..3 -> {"ok", "bad", "missing"}]

StaleRegs ==
    <<" ", "C", "R", "3", "=", "0", "1", " ", "C", "R", "4", "=", "0", "2", " ",
      "I", "D", "T", "=", "0", "3", BS, "r", BS, "n", DQ, "}", "\r", "\n">>

Residues ==
    { <<>>,
      StaleRegs,
      SubSeq(StaleRegs, 8, Len(StaleRegs)),
      <<"}", "\r", "\n">> }

NoRegEnv ==
    [nwrite |-> QMP_COMMAND_INFO_REGS_LEN, poll |-> 0, empty |-> TRUE,
     forms |-> [k \in 1..3 |-> "missing"], residue |-> <<>>]

RegEnvs ==
    { [NoRegEnv EXCEPT !.nwrite = 40], [NoRegEnv EXCEPT !.poll = -1] }
    \cup { [NoRegEnv EXCEPT !.residue = rs] : rs \in Residues }
    \cup { [NoRegEnv EXCEPT !.empty = FALSE, !.forms = f, !.residue = rs] :
             f \in RegForms, rs \in Residues }

RegReply(e) == IF e.empty THEN <<>> ELSE JsonReturn(RegText(e.forms))

OldReg == <<-1, -1, -1, -1>>

RgIdle ==
    /\ rg_env = NoRegEnv
    /\ rg_out = [called |-> FALSE, fn |-> "none", r |-> 0, err |-> "none", held |-> {},
                 regs |-> [idtr |-> OldReg, cr3 |-> OldReg, cr4 |-> OldReg]]

GetRegistersCall ==
    \E e \in RegEnvs :
      LET o == qmp_get_registers(
                  [nwrite |-> e.nwrite, poll |-> e.poll, resp |-> RegReply(e),
                   residue |-> e.residue],
                  [idtr |-> OldReg, cr3 |-> OldReg, cr4 |-> OldReg])
      IN  /\ ~rg_out.called
          /\ rg_env' = e
          /\ rg_out' = [called |-> TRUE, fn |-> "qmp_get_registers", r |-> o.r,
                        err |-> o.err, held |-> o.held, regs |-> o.regs]
          /\ UNCHANGED <<lifeVars, pmVars, rdVars, trVars, drVars>>

(* The response was read and handed to the parser. *)
RegParsed ==
    /\ rg_out.called
    /\ rg_out.fn = "qmp_get_registers"
    /\ rg_env.nwrite = QMP_COMMAND_INFO_REGS_LEN
    /\ rg_env.poll = 0
    /\ ~rg_env.empty

(* The labels the response lacks (with a hex value after the '='). *)
Lacking == {k \in 1..3 : rg_env.forms[k] # "ok"}

(* C6: the parse of the response succeeds only if the response holds each  *)
(* of CR3, CR4 and IDT with '=' and a hex value; when it lacks some, the   *)
(* call fails and the register named is the first lacking one in the order *)
(* CR3, CR4, IDT.                                                          *)
C6_MissingRegisterFails ==
    RegParsed =>
        /\ rg_out.r = 0 => Lacking = {}
        /\ Lacking # {} =>
              /\ rg_out.r = -1
              /\ rg_out.err = RegNames[CHOOSE k \in Lacking : \A j \in Lacking : k <= j]

(***************************************************************************)
(* qmp_readmem_part.  The command is kept as the count and the address it  *)
(* names; its length is that of the text snprintf makes of them.           *)
(***************************************************************************)
RECURSIVE DecLen(_)
DecLen(n) == IF n < 10 THEN 1 ELSE 1 + DecLen(n \div 10)

(* The number of hex digits %zx prints. *)
HexLen(a) ==
    LET d == Hex16(a)
        nz == {k \in 1..16 : d[k] # "0"}
    IN  IF nz = {} THEN 1 ELSE 17 - (CHOOSE k \in nz : \A j \in nz : k <= j)

(* strlen of QMP_COMMAND_XP with both conversions taken out. *)
QMP_COMMAND_XP_FIXED == 80

XpCmdLen(addr, size) == QMP_COMMAND_XP_FIXED + DecLen(size) + HexLen(addr)

(* e: short (the bytes xwrite fell short of the command), poll, resp,      *)
(* residue.  r is the return value, w the bytes stored from buffer[0] on,  *)
(* cmds the commands written to the socket (whole or in part).             *)
qmp_readmem_part(addr, size, e) ==
    IF size <= 0 THEN [r |-> size, w |-> <<>>, cmds |-> <<>>, ub |-> FALSE, held |-> {}]
    ELSE
      LET cmd_len == XpCmdLen(addr, size)
          nwrite  == cmd_len - e.short
          cmds    == <<[count |-> size, addr |-> addr, nwrite |-> nwrite]>>
          buf_len == 1024 + size * 8
          rx      == qmp_read(e.poll, e.resp)
          pm      == qmp_populate_mem(HeapBuf(rx.buf, e.residue), buf_len, size)
          heap    == {"buf"}
          held    == heap \ {"buf"}
      IN  IF nwrite # cmd_len
          THEN [r |-> -1, w |-> <<>>, cmds |-> cmds, ub |-> FALSE, held |-> {}]
          ELSE IF rx.r = -1 \/ rx.nread <= 0
          THEN [r |-> -1, w |-> <<>>, cmds |-> cmds, ub |-> FALSE, held |-> held]
          ELSE [r |-> 0, w |-> pm.w, cmds |-> cmds, ub |-> pm.ub, held |-> held]

(***************************************************************************)
(* The libvirt backend's single-segment read.  The monitor's reply to      *)
(* "xp /<n>xw 0x<addr>" holds four 32-bit words a line, each the           *)
(* little-endian word of four bytes of the guest's memory, and the host    *)
(* stores a uint32_t least significant byte first.  A byte of the malloc'd *)
(* buffer that no word was stored in holds Garbage.                        *)
(***************************************************************************)
Unwritten == 0 - 1

Garbage == 0 - 2

XwWord(a) ==
    <<" ", "0", "x">> \o Hex2(Mem(Add64(a, ToU64(3)))) \o Hex2(Mem(Add64(a, ToU64(2))))
                      \o Hex2(Mem(Add64(a, ToU64(1)))) \o Hex2(Mem(a))

RECURSIVE XwWords(_, _)
XwWords(a, n) ==
    IF n = 0 THEN <<>> ELSE XwWord(a) \o XwWords(Add64(a, ToU64(4)), n - 1)

XwLine(a, n) == Hex16(a) \o <<":">> \o XwWords(a, n) \o <<"\r", "\n">>

(* Lines lo..hi of the dump of nwords words at addr. *)
RECURSIVE XwLines(_, _, _, _)
XwLines(addr, nwords, lo, hi) ==
    IF lo > hi THEN <<>>
    ELSE IF lo = hi
    THEN XwLine(Add64(addr, ToU64(16 * lo)),
                IF 4 * lo + 4 <= nwords THEN 4 ELSE nwords - 4 * lo)
    ELSE LET mid == (lo + hi) \div 2
         IN  XwLines(addr, nwords, lo, mid) \o XwLines(addr, nwords, mid + 1, hi)

XwReply(addr, nwords) == XwLines(addr, nwords, 0, ((nwords + 3) \div 4) - 1)

(* The bytes of the uint32_t a run of hex digits converts to. *)
HexToWord(d) ==
    LET n == Len(d)
        h == [k \in 1..8 |-> IF k + n - 8 >= 1 THEN HexVal(d[k + n - 8]) ELSE 0]
    IN  <<16 * h[7] + h[8], 16 * h[5] + h[6], 16 * h[3] + h[4], 16 * h[1] + h[2]>>

(* One " 0x%x" at position p. *)
ScanWord(s, p) ==
    LET p1 == SkipSpace(s, p)
        p2 == SkipSpace(s, p1 + 2)
        p3 == IF At(s, p2) = "0" /\ tolower(At(s, p2 + 1)) = "x" THEN p2 + 2 ELSE p2
        q  == SkipHex(s, p3)
    IN  IF At(s, p1) = "0" /\ At(s, p1 + 1) = "x" /\ q > p3
        THEN [ok |-> TRUE, v |-> HexToWord(SubSeq(s, p3, q - 1)), p |-> q]
        ELSE [ok |-> FALSE, v |-> <<>>, p |-> p]

RECURSIVE ScanWords(_, _, _)
ScanWords(s, p, k) ==
    IF k = 0 THEN <<>>
    ELSE LET b == ScanWord(s, p)
         IN  IF b.ok THEN b.v \o ScanWords(s, b.p, k - 1) ELSE <<>>

(* sscanf(line, "%*s 0x%x 0x%x 0x%x 0x%x", ...): the bytes of the words    *)
(* it stored.                                                              *)
sscanf_words(line) ==
    LET p0 == SkipSpace(line, 1)
    IN  IF p0 > Len(line) THEN <<>>
        ELSE ScanWords(line, SkipWord(line, p0), 4)

(* strtok(.., "\n"): from p, the start of the next token (past any "\n")   *)
(* and the index after its last character.                                 *)
TokStart(s, p) ==
    CHOOSE i \in p..(Len(s) + 1) :
        /\ (i > Len(s) \/ s[i] # "\n")
        /\ \A j \in p..(i - 1) : s[j] = "\n"

TokEnd(s, p) ==
    CHOOSE i \in p..(Len(s) + 1) :
        /\ (i > Len(s) \/ s[i] = "\n")
        /\ \A j \in p..(i - 1) : s[j] # "\n"

(* The loop over the lines: ls.p is where strtok resumes, ls.data the      *)
(* bytes stored through data[].                                            *)
LvCond(s, ls) == TokStart(s, ls.p) <= Len(s)

LvBody(s, ls) ==
    LET b == TokStart(s, ls.p)
        e == TokEnd(s, b)
    IN  [p |-> e + 1, data |-> ls.data \o sscanf_words(SubSeq(s, b, e - 1))]

RECURSIVE LvRun(_, _, _)
LvRun(s, ls, k) ==
    IF ~LvCond(s, ls) THEN ls
    ELSE IF k = 0 THEN LvBody(s, ls)
    ELSE LET l1 == LvRun(s, ls, k - 1)
         IN  LvRun(s, l1, k - 1)

roundup(x, y) == ((x + (y - 1)) \div y) * y

(* e: ok (virDomainQemuMonitorCommand succeeded), resp.  buffer is NULL    *)
(* (<<>> with null set) or the malloc'd bytes; cmds the commands sent.     *)
libvirt_dump_phy_memory(start_addr, size0, e) ==
    LET size == roundup(size0, 4)
        cap  == 1024 + size * 2
        cmds == <<[count |-> size \div 4, addr |-> start_addr]>>
        data == LvRun(e.resp, [p |-> 1, data |-> <<>>], LoopDepth).data
        heap == {"buffer"}
    IN  IF ~e.ok
        THEN [null |-> TRUE, buffer |-> <<>>, cmds |-> cmds, held |-> heap, ub |-> FALSE]
        ELSE [null |-> FALSE,
              buffer |-> [k \in 1..cap |-> IF k <= Len(data) THEN data[k] ELSE Garbage],
              cmds |-> cmds, held |-> (heap \cup {"hmp_response"}) \ {"hmp_response"},
              ub |-> Len(data) > cap]

libvirt_readmem_part(addr, size, e) ==
    LET d == libvirt_dump_phy_memory(addr, size, e)
    IN  IF d.null
        THEN [r |-> -1, w |-> <<>>, cmds |-> d.cmds, ub |-> FALSE, held |-> d.held]
        ELSE [r |-> 0, w |-> SubSeq(d.buffer, 1, size), cmds |-> d.cmds, ub |-> d.ub,
              held |-> d.held \ {"buffer"}]

(***************************************************************************)
(* The other backends' get_registers.                                      *)
(***************************************************************************)
file_get_registers(regs) ==
    [r |-> 0, held |-> {},
     regs |-> [regs EXCEPT !.cr3 = U64(0, 0, 6535, 8192),
                           !.idtr = U64(65535, 65535, 65362, 32768)]]

(* strtoul(s + p - 1, NULL, 16): white space, a sign, an optional 0x, hex  *)
(* digits; 0 when there are none.                                          *)
strtoul(s, p) ==
    LET p1 == SkipSpace(s, p)
        p2 == IF At(s, p1) \in {"+", "-"} THEN p1 + 1 ELSE p1
        p3 == IF At(s, p2) = "0" /\ tolower(At(s, p2 + 1)) = "x" /\ IsHex(At(s, p2 + 2))
              THEN p2 + 2 ELSE p2
        q  == SkipHex(s, p3)
        v  == IF q > p3 THEN HexToU64(SubSeq(s, p3, q - 1)) ELSE ToU64(0)
    IN  IF At(s, p1) = "-" /\ v # Ones64 THEN Sub64(ToU64(0), v) ELSE v

get_line_value(line, key) ==
    LET start == strstr(line, key)
        after == CHOOSE i \in (start + Len(key))..(Len(line) + 1) :
                   /\ (i > Len(line) \/ line[i] \notin {" ", "="})
                   /\ \A j \in (start + Len(key))..(i - 1) : line[j] \in {" ", "="}
    IN  IF start = 0 THEN ToU64(0) ELSE strtoul(line, after)

(* The loop over the lines of hmp_response, from position p. *)
RECURSIVE LvRegLines(_, _, _)
LvRegLines(s, p, regs) ==
    LET b    == TokStart(s, p)
        e    == TokEnd(s, b)
        line == SubSeq(s, b, e - 1)
        r1   == IF strstr(line, <<"I", "D", "T">>) # 0
                THEN [regs EXCEPT !.idtr = get_line_value(line, <<"I", "D", "T">>)]
                ELSE regs
        r2   == IF strstr(line, <<"C", "R", "3">>) # 0
                THEN [r1 EXCEPT !.cr3 = get_line_value(line, <<"C", "R", "3">>)]
                ELSE r1
    IN  IF b > Len(s) THEN regs ELSE LvRegLines(s, e + 1, r2)

(* e: ok (virDomainQemuMonitorCommand succeeded), resp.  The function ends *)
(* without a return statement: its caller reads whatever value the         *)
(* register holds, here rv.                                               *)
libvirt_get_registers(e, regs, rv) ==
    IF ~e.ok THEN [r |-> -1, regs |-> regs, held |-> {}]
    ELSE [r |-> rv, regs |-> LvRegLines(e.resp, 1, regs),
          held |-> {"hmp_response"} \ {"hmp_response"}]

(* What HMP prints for "info registers", the parts as in RegText. *)
HmpRegText(forms) ==
    <<"R", "A", "X", "=", "0", "0", "0", "1", " ">>
    \o RegPart(1, forms[1]) \o RegPart(2, forms[2]) \o <<"\r", "\n">>
    \o RegPart(3, forms[3]) \o <<"\r", "\n">>

NoReturnValues == {0, -1, 1}

FileGetRegistersCall ==
    \E o \in {file_get_registers([idtr |-> OldReg, cr3 |-> OldReg, cr4 |-> OldReg])} :
      /\ ~rg_out.called
      /\ rg_env' = NoRegEnv
      /\ rg_out' = [called |-> TRUE, fn |-> "file_get_registers", r |-> o.r,
                    err |-> "none", held |-> o.held, regs |-> o.regs]
      /\ UNCHANGED <<lifeVars, pmVars, rdVars, trVars, drVars>>

(* In rg_env, poll = -1 stands for a monitor command that failed. *)
LibvirtGetRegistersCall ==
    \E f \in RegForms, ok \in BOOLEAN, rv \in NoReturnValues :
      \E o \in {libvirt_get_registers([ok |-> ok, resp |-> HmpRegText(f)],
                                      [idtr |-> OldReg, cr3 |-> OldReg, cr4 |-> OldReg],
                                      rv)} :
        /\ ~rg_out.called
        /\ rg_env' = [NoRegEnv EXCEPT !.poll = IF ok THEN 0 ELSE -1, !.empty = FALSE,
                                      !.forms = f]
        /\ rg_out' = [called |-> TRUE, fn |-> "libvirt_get_registers", r |-> o.r,
                      err |-> "none", held |-> o.held, regs |-> o.regs]
        /\ UNCHANGED <<lifeVars, pmVars, rdVars, trVars, drVars>>

(* C16: when get_registers of any backend returns 0, idtr, cr3 and cr4     *)
(* have all been assigned by the call: none still holds the caller's       *)
(* earlier value.                                                          *)
C16_AllRegistersAssigned ==
    (rg_out.called /\ rg_out.r = 0) =>
      /\ rg_out.regs.idtr # OldReg
      /\ rg_out.regs.cr3 # OldReg
      /\ rg_out.regs.cr4 # OldReg

(***************************************************************************)
(* The chunked readers qmp_readmem and libvirt_readmem, one action a loop  *)
(* iteration.  rd holds the call and its locals (addr, i, left; off is     *)
(* buf - buffer), out the caller's buffer, segs what each single-segment   *)
(* read was asked, was answered and returned.                              *)
(***************************************************************************)
step == 4096

MaxFull == 2

MaxLeft == 3

MaxSmall == 9

MaxFaults == 1

SmallAddr == U64(0, 1, 2, 65533)

BigAddr == U64(0, 0, 65535, 63485)

ReadCalls ==
    { [addr |-> a, size |-> n] : a \in {SmallAddr, BigAddr}, n \in 0..MaxSmall }
    \cup { [addr |-> BigAddr, size |-> n] : n \in {step + MaxLeft, MaxFull * step} }

(* What the heap may hold behind a reply: nothing, or the end of an        *)
(* earlier dump.                                                           *)
StaleDump ==
    <<"{">> \o return_start
    \o <<"f", "0", ":", " ", "0", "x", "a", "a", " ", "0", "x", "b", "b", BS, "r", BS, "n">>
    \o <<DQ, "}", "\r", "\n">>

DumpResidues == { <<>>, StaleDump }

DeniedReply(addr) ==
    JsonReturn(Hex16(addr)
               \o <<":", " ", "C", "a", "n", "n", "o", "t", " ", "a", "c", "c", "e", "s", "s",
                    " ", "m", "e", "m", "o", "r", "y", BS, "r", BS, "n">>)

ErrorReply ==
    <<"{", DQ, "e", "r", "r", "o", "r", DQ, ":", " ", "{", DQ, "c", "l", "a", "s", "s", DQ,
      ":", " ", DQ, "G", "e", "n", "e", "r", "i", "c", "E", "r", "r", "o", "r", DQ, "}", "}",
      "\r", "\n">>

(* The monitor's answers to "xp /<size>xb 0x<addr>": the dump of the       *)
(* reference memory, a dump that stops half way, a refusal, an error       *)
(* object, nothing; or the write falls short, or poll fails.               *)
QmpKinds == {"dump", "partial", "denied", "error", "empty", "pollerr", "shortwrite"}

QmpSegEnv(kind, residue, addr, size) ==
    [kind |-> kind, residue |-> residue,
     short |-> IF kind = "shortwrite" THEN 1 ELSE 0,
     poll |-> IF kind = "pollerr" THEN -1 ELSE 0,
     resp |-> CASE kind = "dump"    -> XpReply(addr, size)
                [] kind = "partial" -> XpReply(addr, size \div 2)
                [] kind = "denied"  -> DeniedReply(addr)
                [] kind = "error"   -> ErrorReply
                [] OTHER            -> <<>>]

LibvirtKinds == {"dump", "denied", "fail"}

LibvirtSegEnv(kind, addr, size) ==
    [kind |-> kind, residue |-> <<>>, ok |-> kind # "fail",
     resp |-> CASE kind = "dump"   -> XwReply(addr, roundup(size, 4) \div 4)
                [] kind = "denied" -> Hex16(addr) \o <<":", " ", "C", "a", "n", "n", "o", "t",
                                                       "\r", "\n">>
                [] OTHER           -> <<>>]

(* How far an answer is from the reference monitor on a clean heap. *)
Deviation(kind, residue) ==
    (IF kind = "dump" THEN 0 ELSE 1) + (IF residue = <<>> THEN 0 ELSE 1)

RdIdle ==
    /\ rd = [pc |-> "idle", fn |-> "none", addr0 |-> ToU64(0), size0 |-> 0,
             addr |-> ToU64(0), off |-> 0, i |-> 0, left |-> 0, faults |-> 0, ret |-> 0]
    /\ out = <<>>
    /\ segs = <<>>

(* buffer[off .. off + Len(w) - 1] := w, within the caller's size bytes. *)
Store(buf, off, w) ==
    [k \in 1..Len(buf) |-> IF k > off /\ k <= off + Len(w) THEN w[k - off] ELSE buf[k]]

(* qmp_readmem / libvirt_readmem up to the loop. *)
ReadmemCall ==
    \E c \in ReadCalls, fn \in {"qmp_readmem", "libvirt_readmem"} :
      /\ rd.pc = "idle"
      /\ rd' = [pc |-> "loop", fn |-> fn, addr0 |-> c.addr, size0 |-> c.size,
                addr |-> c.addr, off |-> 0, i |-> 0, left |-> c.size % step,
                faults |-> 0, ret |-> 0]
      /\ out' = [k \in 1..c.size |-> Unwritten]
      /\ segs' = <<>>
      /\ UNCHANGED <<lifeVars, pmVars, rgVars, trVars, drVars>>

(* The single-segment read the loop of rd.fn makes, in environment e. *)
ReadmemPart(fn, addr, size, e) ==
    IF fn = "qmp_readmem" THEN qmp_readmem_part(addr, size, e)
    ELSE libvirt_readmem_part(addr, size, e)

SegEnvs(fn, addr, size, faults) ==
    IF fn = "qmp_readmem"
    THEN { QmpSegEnv(k, rs, addr, size) :
             <<k, rs>> \in { x \in QmpKinds \X DumpResidues :
                               faults + Deviation(x[1], x[2]) <= MaxFaults } }
    ELSE { LibvirtSegEnv(k, addr, size) :
             k \in { x \in LibvirtKinds : faults + Deviation(x, <<>>) <= MaxFaults } }

(* addr += step; buf += step; i++ *)
Advance_buf_only(r) == [r EXCEPT !.i = @ + 1, !.off = @ + step]

Advance(r) == [r EXCEPT !.i = @ + 1, !.addr = Add64(@, ToU64(step)), !.off = @ + step]

(* if (..._readmem_part(addr, buf, n) != 0) return -1; and what follows.   *)
AfterPart_going_on(r, part_r, last) ==
    IF last THEN [r EXCEPT !.pc = "done", !.ret = IF part_r # 0 THEN -1 ELSE 0]
    ELSE Advance(r)

AfterPart(r, part_r, last) ==
    IF part_r # 0 THEN [r EXCEPT !.pc = "done", !.ret = -1]
    ELSE IF last THEN [r EXCEPT !.pc = "done", !.ret = 0]
    ELSE Advance(r)

(* One single-segment read of n bytes, and what the reader does with its   *)
(* result: return -1, or move on (last: return 0).                         *)
ReadmemSegment(n, last) ==
    \E e \in SegEnvs(rd.fn, rd.addr, n, rd.faults) :
      \E o \in {ReadmemPart(rd.fn, rd.addr, n, e)},
         r \in {[rd EXCEPT !.faults = @ + Deviation(e.kind, e.residue)]} :
          /\ out' = Store(out, rd.off, o.w)
          /\ segs' = Append(segs, [addr |-> rd.addr, off |-> rd.off, len |-> n,
                                   kind |-> e.kind, stale |-> e.residue # <<>>,
                                   r |-> o.r, cmds |-> o.cmds, nw |-> Len(o.w),
                                   held |-> o.held])
          /\ rd' = AfterPart(r, o.r, last)
          /\ UNCHANGED <<lifeVars, pmVars, rgVars, trVars, drVars>>

(* for (i = 0; i < size / step; i++) *)
ReadmemFull ==
    /\ rd.pc = "loop"
    /\ rd.i < rd.size0 \div step
    /\ ReadmemSegment(step, FALSE)

(* if (left > 0) *)
ReadmemLeft ==
    /\ rd.pc = "loop"
    /\ rd.i >= rd.size0 \div step
    /\ rd.left > 0
    /\ ReadmemSegment(rd.left, TRUE)

ReadmemReturn ==
    /\ rd.pc = "loop"
    /\ rd.i >= rd.size0 \div step
    /\ rd.left = 0
    /\ rd' = [rd EXCEPT !.pc = "done", !.ret = 0]
    /\ UNCHANGED <<out, segs>>
    /\ UNCHANGED <<lifeVars, pmVars, rgVars, trVars, drVars>>

(* qmp_readmem_part called on its own, for any size the caller likes. *)
ReadmemPartCall ==
    \E a \in {SmallAddr, BigAddr}, n \in 0..MaxSmall :
      \E e \in SegEnvs("qmp_readmem", a, n, 0) :
        \E o \in {qmp_readmem_part(a, n, e)} :
            /\ rd.pc = "idle"
            /\ rd' = [pc |-> "done", fn |-> "qmp_readmem_part", addr0 |-> a, size0 |-> n,
                      addr |-> a, off |-> 0, i |-> 0, left |-> 0,
                      faults |-> Deviation(e.kind, e.residue), ret |-> o.r]
            /\ out' = Store([k \in 1..n |-> Unwritten], 0, o.w)
            /\ segs' = <<[addr |-> a, off |-> 0, len |-> n, kind |-> e.kind,
                          stale |-> e.residue # <<>>, r |-> o.r, cmds |-> o.cmds,
                          nw |-> Len(o.w), held |-> o.held]>>
            /\ UNCHANGED <<lifeVars, pmVars, rgVars, trVars, drVars>>

(***************************************************************************)
(* Properties of the chunked readers.                                      *)
(***************************************************************************)
Returned(fns) == rd.pc = "done" /\ rd.fn \in fns

(* The monitor answered every command with the dump of the reference       *)
(* memory.                                                                 *)
AllDumps == \A k \in 1..Len(segs) : segs[k].kind = "dump"

(* One contiguous read of [addr0, addr0 + size0). *)
Contiguous == [k \in 1..rd.size0 |-> Mem(Add64(rd.addr0, ToU64(k - 1)))]

RECURSIVE LenSum(_)
LenSum(k) == IF k = 0 THEN 0 ELSE segs[k].len + LenSum(k - 1)

(* The one command of segment k asks for its own address and length. *)
AsksFor(k) ==
    /\ Len(segs[k].cmds) = 1
    /\ segs[k].cmds[1].addr = segs[k].addr
    /\ segs[k].cmds[1].count = IF rd.fn = "qmp_readmem" THEN segs[k].len
                               ELSE roundup(segs[k].len, 4) \div 4

(* C7: a chunked read (qmp_readmem, libvirt_readmem) that returns 0 after  *)
(* the monitor answered every command from the reference memory leaves in  *)
(* the buffer exactly the bytes of [address, address + length); segment k  *)
(* (from 0) asks for address + k * 4096, lands at offset k * 4096, the     *)
(* addresses strictly increase and the lengths add up to the length.       *)
C7_ChunkedReadEqualsContiguous ==
    (Returned({"qmp_readmem", "libvirt_readmem"}) /\ rd.ret = 0 /\ AllDumps) =>
      /\ out = Contiguous
      /\ LenSum(Len(segs)) = rd.size0
      /\ \A k \in 1..Len(segs) :
           /\ segs[k].addr = Add64(rd.addr0, ToU64((k - 1) * step))
           /\ segs[k].off = (k - 1) * step
           /\ AsksFor(k)
           /\ k > 1 => /\ Ge64(segs[k].addr, segs[k - 1].addr)
                       /\ segs[k].addr # segs[k - 1].addr

C7_Witness ==
    /\ Returned({"qmp_readmem", "libvirt_readmem"}) /\ rd.ret = 0 /\ AllDumps
    /\ rd.size0 > step
    /\ rd.size0 % step # 0
    /\ Len(segs) = 2
    /\ out = Contiguous

(* C8: when qmp_readmem returns 0, every byte of the buffer was written    *)
(* by the call and every segment stored as many bytes as it was asked for. *)
C8_SuccessMeansAllWritten ==
    (Returned({"qmp_readmem"}) /\ rd.ret = 0) =>
      /\ \A k \in 1..rd.size0 : out[k] # Unwritten
      /\ \A k \in 1..Len(segs) : segs[k].nw = segs[k].len

(* C12: in qmp_readmem and libvirt_readmem a single-segment read that      *)
(* fails is the last one made: the read has returned -1, no command of a   *)
(* later segment follows it, and no address is asked for twice.            *)
C12_FirstFailureAborts ==
    rd.fn \in {"qmp_readmem", "libvirt_readmem"} =>
      \A k \in 1..Len(segs) :
        /\ segs[k].r # 0 => (k = Len(segs) /\ rd.pc = "done" /\ rd.ret = -1)
        /\ \A j \in 1..(k - 1) : segs[j].addr # segs[k].addr

C12_Witness ==
    /\ Returned({"qmp_readmem", "libvirt_readmem"})
    /\ rd.size0 >= 2 * step
    /\ Len(segs) = 1
    /\ segs[1].r # 0
    /\ Len(segs[1].cmds) = 1
    /\ rd.ret = -1

(* C10: qmp_readmem_part with size 0 returns something other than the 0 of *)
(* success, and sends no command.                                          *)
C10_ZeroLengthRejected ==
    (Returned({"qmp_readmem_part"}) /\ rd.size0 = 0) =>
      /\ rd.ret # 0
      /\ segs[1].cmds = <<>>

(***************************************************************************)
(* readmem: the translation of the address, and the call of the backend's  *)
(* readmem.  __START_KERNEL_map is the x86_64 kernel's; PAGE_OFFSET and    *)
(* phys_base are what machdep holds for the guest.                         *)
(***************************************************************************)
START_KERNEL_map == U64(65535, 65535, 32768, 0)

PageOffsets == { U64(65535, 34944, 0, 0), U64(65535, 34816, 0, 0) }

PhysBases == { ToU64(0), U64(0, 0, 256, 0), U64(65535, 65535, 65280, 0) }

Machines == [PAGE_OFFSET : PageOffsets, phys_base : PhysBases]

memtypes == {"KVADDR", "PHYSADDR", "UVADDR"}

(* What paddr holds when no case of the switch assigned it. *)
Indeterminate == { ToU64(0), U64(65535, 65535, 65535, 65535) }

readmem_above_only(addr, memtype, size, m, junk, g) ==
    LET paddr == CASE memtype = "KVADDR" ->
                        IF Ge64(addr, START_KERNEL_map) /\ addr # START_KERNEL_map
                        THEN Add64(Sub64(addr, START_KERNEL_map), m.phys_base)
                        ELSE Sub64(addr, m.PAGE_OFFSET)
                   [] memtype = "PHYSADDR" -> addr
                   [] OTHER -> junk
    IN  [fn |-> g.readmem, paddr |-> paddr, size |-> size]

readmem(addr, memtype, size, m, junk, g) ==
    LET paddr == CASE memtype = "KVADDR" ->
                        IF Ge64(addr, START_KERNEL_map)
                        THEN Add64(Sub64(addr, START_KERNEL_map), m.phys_base)
                        ELSE Sub64(addr, m.PAGE_OFFSET)
                   [] memtype = "PHYSADDR" -> addr
                   [] OTHER -> junk
    IN  [fn |-> g.readmem, paddr |-> paddr, size |-> size]

VAddrs ==
    { Sub64(START_KERNEL_map, ToU64(1)), START_KERNEL_map,
      Add64(START_KERNEL_map, U64(0, 0, 256, 4660)),
      U64(65535, 65535, 65535, 65535), ToU64(4096),
      U64(65535, 34944, 1, 4096) }

TrIdle ==
    tr = [called |-> FALSE, addr |-> ToU64(0), memtype |-> "none",
          m |-> [PAGE_OFFSET |-> ToU64(0), phys_base |-> ToU64(0)],
          fn |-> "none", paddr |-> ToU64(0), size |-> 0]

Readmem ==
    \E addr \in VAddrs, memtype \in memtypes, m \in Machines, size \in {1, step} :
      \E junk \in IF memtype \in {"KVADDR", "PHYSADDR"} THEN {ToU64(0)} ELSE Indeterminate :
        LET o == readmem(addr, memtype, size, m, junk, guest_client)
        IN  /\ ~tr.called
            /\ tr' = [called |-> TRUE, addr |-> addr, memtype |-> memtype, m |-> m,
                      fn |-> o.fn, paddr |-> o.paddr, size |-> o.size]
            /\ UNCHANGED <<lifeVars, pmVars, rgVars, rdVars, drVars>>

(* C9: the address readmem hands to the backend is, for a KVADDR at or     *)
(* above __START_KERNEL_map, addr - __START_KERNEL_map + phys_base; for a  *)
(* KVADDR below it, addr - PAGE_OFFSET; for a PHYSADDR, addr; all modulo   *)
(* 2^64.  Stated by the inverse: adding back what was subtracted gives     *)
(* the address sides of the equation.                                      *)
C9_AddressTranslation ==
    tr.called =>
      /\ (tr.memtype = "KVADDR" /\ Ge64(tr.addr, START_KERNEL_map)) =>
            Add64(tr.paddr, START_KERNEL_map) = Add64(tr.addr, tr.m.phys_base)
      /\ (tr.memtype = "KVADDR" /\ ~Ge64(tr.addr, START_KERNEL_map)) =>
            Add64(tr.paddr, tr.m.PAGE_OFFSET) = tr.addr
      /\ tr.memtype = "PHYSADDR" => tr.paddr = tr.addr

C9_Witness ==
    /\ tr.called
    /\ tr.memtype = "KVADDR"
    /\ tr.addr = START_KERNEL_map
    /\ tr.m.phys_base = U64(0, 0, 256, 0)
    /\ tr.paddr = U64(0, 0, 256, 0)
    /\ tr.fn = "qmp_readmem"


(***************************************************************************)
(* qmp_read step by step: the poll loop, the socket and the monitor behind *)
(* it.  Bytes are counted, each run of them tagged with the exchange whose *)
(* command they answer.  dr: where the call is (pc), the capacity of the   *)
(* caller's buffer, tread, and of tread the bytes that answer this         *)
(* exchange (own) and an earlier one (stale).  sock.q: the bytes received  *)
(* and not yet read; sock.hup: the peer has closed.  mon: the answers the  *)
(* monitor still owes, oldest first, in pieces.                            *)
(***************************************************************************)
READ_MAX == 1024

HANDSHAKE_BUF == 512

REGS_BUF == 8192

MemBufLen(size) == 1024 + size * 8

Caps == {HANDSHAKE_BUF, REGS_BUF, MemBufLen(1)}

SmallPiece == 100

BigPiece == 3000

MaxPieces == 3

MaxExchanges == 2

PieceSizes == {SmallPiece, BigPiece}

DrIdle ==
    /\ dr = [pc |-> "idle", cap |-> 0, x |-> 0, tread |-> 0, own |-> 0, stale |-> 0,
             ret |-> 0]
    /\ sock = [q |-> <<>>, hup |-> FALSE]
    /\ mon = <<>>

RECURSIVE Avail(_)
Avail(q) == IF q = <<>> THEN 0 ELSE Head(q).n + Avail(Tail(q))

(* n more bytes of exchange x arrive. *)
Arrive(q, x, n) ==
    IF q # <<>> /\ q[Len(q)].x = x
    THEN [q EXCEPT ![Len(q)].n = @ + n]
    ELSE Append(q, [x |-> x, n |-> n])

(* read() of up to n bytes: how many were of exchange x, how many of       *)
(* another, and what stays in the socket.                                  *)
RECURSIVE Take(_, _, _)
Take(q, n, x) ==
    IF q = <<>> \/ n = 0 THEN [own |-> 0, stale |-> 0, q |-> q]
    ELSE IF Head(q).n > n
    THEN [own |-> IF Head(q).x = x THEN n ELSE 0,
          stale |-> IF Head(q).x = x THEN 0 ELSE n,
          q |-> <<[Head(q) EXCEPT !.n = @ - n]>> \o Tail(q)]
    ELSE LET t == Take(Tail(q), n - Head(q).n, x)
         IN  [own |-> t.own + (IF Head(q).x = x THEN Head(q).n ELSE 0),
              stale |-> t.stale + (IF Head(q).x = x THEN 0 ELSE Head(q).n),
              q |-> t.q]

(* A caller sends its command (the greeting needs none) and calls          *)
(* qmp_read with a buffer of cap bytes; the monitor will answer in k       *)
(* pieces.                                                                 *)
QmpReadCall ==
    \E cap \in Caps, k \in 0..MaxPieces :
      /\ dr.pc \in {"idle", "done"}
      /\ dr.x < MaxExchanges
      /\ dr' = [pc |-> "poll", cap |-> cap, x |-> dr.x + 1, tread |-> 0, own |-> 0,
                stale |-> 0, ret |-> 0]
      /\ mon' = IF sock.hup \/ k = 0 THEN mon
                ELSE Append(mon, [x |-> dr.x + 1, left |-> k])
      /\ UNCHANGED sock
      /\ UNCHANGED <<lifeVars, pmVars, rgVars, rdVars, trVars>>

(* The monitor writes the next piece of the oldest answer it owes. *)
MonitorWrite ==
    \E n \in PieceSizes :
      /\ mon # <<>>
      /\ ~sock.hup
      /\ sock' = [sock EXCEPT !.q = Arrive(@, Head(mon).x, n)]
      /\ mon' = IF Head(mon).left = 1 THEN Tail(mon)
                ELSE <<[Head(mon) EXCEPT !.left = @ - 1]>> \o Tail(mon)
      /\ UNCHANGED dr
      /\ UNCHANGED <<lifeVars, pmVars, rgVars, rdVars, trVars>>

(* The peer closes the connection. *)
PeerHangup ==
    /\ ~sock.hup
    /\ sock' = [sock EXCEPT !.hup = TRUE]
    /\ mon' = <<>>
    /\ UNCHANGED dr
    /\ UNCHANGED <<lifeVars, pmVars, rgVars, rdVars, trVars>>

(* r = poll(&pfd, 1, 5) gives -1: return -1. *)
PollFails ==
    /\ dr.pc = "poll"
    /\ dr' = [dr EXCEPT !.pc = "done", !.ret = -1]
    /\ UNCHANGED <<sock, mon>>
    /\ UNCHANGED <<lifeVars, pmVars, rgVars, rdVars, trVars>>

(* poll gives 1 with POLLIN: bytes are waiting, or the peer has closed     *)
(* (end of file is readable, at once and for ever).                        *)
PollReadable ==
    /\ dr.pc = "poll"
    /\ sock.q # <<>> \/ sock.hup
    /\ dr' = [dr EXCEPT !.pc = "read"]
    /\ UNCHANGED <<sock, mon>>
    /\ UNCHANGED <<lifeVars, pmVars, rgVars, rdVars, trVars>>

(* poll gives 0, nothing arrived for 5 ms: *len = tread; return 0. *)
PollTimeout ==
    /\ dr.pc = "poll"
    /\ sock.q = <<>> /\ ~sock.hup
    /\ dr' = [dr EXCEPT !.pc = "done", !.ret = 0]
    /\ UNCHANGED <<sock, mon>>
    /\ UNCHANGED <<lifeVars, pmVars, rgVars, rdVars, trVars>>

(* nread = xread(fd, buf, 1024); tread += nread; buf += nread; *)
XRead ==
    \E t \in {Take(sock.q, IF Avail(sock.q) > READ_MAX THEN READ_MAX ELSE Avail(sock.q),
                   dr.x)} :
      /\ dr.pc = "read"
      /\ dr' = [dr EXCEPT !.pc = "poll", !.tread = @ + t.own + t.stale,
                          !.own = @ + t.own, !.stale = @ + t.stale]
      /\ sock' = [sock EXCEPT !.q = t.q]
      /\ UNCHANGED mon
      /\ UNCHANGED <<lifeVars, pmVars, rgVars, rdVars, trVars>>

QmpReadStep == PollFails \/ PollReadable \/ PollTimeout \/ XRead

DrainNext == QmpReadCall \/ MonitorWrite \/ PeerHangup \/ QmpReadStep

(* C18: qmp_populate_mem appends at most size bytes to the output buffer,   *)
(* whatever the response and the limit.                                    *)
C18_AtMostLimitBytes == pm_out.called => Len(pm_out.w) <= pm_size

(* C17: when get_registers or a single-segment read of the socket or the   *)
(* libvirt backend returns a failure, no buffer the call allocated is      *)
(* still allocated.                                                        *)
C17_FailureReleasesBuffers ==
    /\ (rg_out.called /\ rg_out.fn \in {"qmp_get_registers", "libvirt_get_registers"}
          /\ rg_out.r # 0) => rg_out.held = {}
    /\ \A k \in 1..Len(segs) : segs[k].r # 0 => segs[k].held = {}

(* C15: in the three exchanges of the socket backend a write that          *)
(* transfers fewer bytes than the command has makes the operation fail     *)
(* without a response being read and used: qmp_negotiate returns -1;       *)
(* qmp_get_registers returns -1 and assigns no register; qmp_readmem_part  *)
(* returns -1 and stores no byte.                                          *)
C15_ShortWriteFails ==
    /\ (neg_r # NotCalled /\ env.nwrite < QMP_ENTER_COMMAND_MODE_LEN) => neg_r = <<-1>>
    /\ (rg_out.called /\ rg_env.nwrite < QMP_COMMAND_INFO_REGS_LEN) =>
          /\ rg_out.r = -1
          /\ rg_out.regs = [idtr |-> OldReg, cr3 |-> OldReg, cr4 |-> OldReg]
    /\ \A k \in 1..Len(segs) :
          (/\ rd.fn \in {"qmp_readmem", "qmp_readmem_part"}
           /\ Len(segs[k].cmds) = 1
           /\ segs[k].cmds[1].nwrite < XpCmdLen(segs[k].addr, segs[k].len)) =>
             (segs[k].r = -1 /\ segs[k].nw = 0)

(* C13: qmp_read never stores more bytes than the caller's buffer holds:   *)
(* tread stays at or below the capacity (512, 8192, 1024 + 8 * size) in    *)
(* every state of the call.                                                *)
C13_DrainWithinCapacity ==
    dr.pc # "idle" => dr.tread <= dr.cap

(* C14: every call of qmp_read returns, whatever the peer does (closing    *)
(* the connection included).                                               *)
C14_DrainReturns ==
    (dr.pc \in {"poll", "read"}) ~> (dr.pc = "done")

(* C19: the bytes a qmp_read that returns 0 hands to its caller are        *)
(* exactly the whole answer to the command of its own exchange: none of    *)
(* an earlier answer, and nothing of its own answer is still owed by the   *)
(* monitor or waiting in the socket.                                       *)
C19_ExchangeFramed ==
    (dr.pc = "done" /\ dr.ret = 0) =>
      /\ dr.stale = 0
      /\ \A k \in 1..Len(mon) : mon[k].x # dr.x
      /\ \A k \in 1..Len(sock.q) : sock.q[k].x # dr.x

(***************************************************************************)
(* The specifications: construction and teardown; qmp_populate_mem on its  *)
(* own; qmp_get_registers; the readers; readmem on a constructed client.   *)
(***************************************************************************)
Init == LifeInit /\ PmIdle /\ RgIdle /\ RdIdle /\ TrIdle /\ DrIdle

Next == GuestClientNew \/ GuestClientRelease

Spec == Init /\ [][Next]_vars

PopulateInit == LifeInit /\ PmInit /\ RgIdle /\ RdIdle /\ TrIdle /\ DrIdle

PopulateSpec == PopulateInit /\ [][PopulateMemCall]_vars

RegNext == GetRegistersCall \/ FileGetRegistersCall \/ LibvirtGetRegistersCall

RegSpec == Init /\ [][RegNext]_vars

ReadNext ==
    ReadmemCall \/ ReadmemFull \/ ReadmemLeft \/ ReadmemReturn \/ ReadmemPartCall

ReadSpec == Init /\ [][ReadNext]_vars

(* Any state one guest_client_new leaves behind. *)
Constructed ==
    \E ac \in Targets, ty \in guest_access_t :
      \E e \in IF ac = <<>> /\ ty = "QMP_SOCKET" THEN {NoEnv} ELSE Envs(ty) :
        LET g0 == [guest_client |-> NULL, domain |-> 0, domain_conn |-> 0, mem_file |-> 0,
                   qmp_fd |-> 0,
                   res |-> [i \in 0..0 |-> [kind |-> "stdin", open |-> TRUE, closes |-> 0]]]
            o  == guest_client_new(g0, ac, ty, e)
        IN  /\ guest_client = o.g.guest_client
            /\ domain = o.g.domain
            /\ domain_conn = o.g.domain_conn
            /\ mem_file = o.g.mem_file
            /\ qmp_fd = o.g.qmp_fd
            /\ res = o.g.res
            /\ call = [op |-> "guest_client_new", ac |-> ac, ty |-> ty]
            /\ ret = o.r
            /\ env = e
            /\ pre = g0
            /\ init_r = o.init_r
            /\ est_r = o.est_r
            /\ neg_r = o.neg_r

TranslateInit == Constructed /\ PmIdle /\ RgIdle /\ RdIdle /\ TrIdle /\ DrIdle

TranslateSpec == TranslateInit /\ [][Readmem]_vars

DrainSpec == Init /\ [][DrainNext]_vars

(* The caller's thread is scheduled: a step of qmp_read that can be taken  *)
(* is taken.                                                               *)
DrainLive == DrainSpec /\ WF_vars(QmpReadStep)

====
